---- MODULE Spec2Model ----
(***************************************************************************)
(* Model of two utilities of the repository:                               *)
(*   - save_downloads_with_retry, the bounded download poller, in its two  *)
(*     copies (download-financial-statements and browserbase-reducto);     *)
(*   - generate_totp, the TOTP generator of the MFA scripts.               *)
(* Time is counted in whole seconds.  The poller is an asyncio coroutine:  *)
(* one action is the code between two awaits.                              *)
(***************************************************************************)
EXTENDS Integers, Sequences, FiniteSets, TLC

\* ------------------------------------------------------------------------
\* Bounds of the model
\* ------------------------------------------------------------------------
MaxStart == 1
MaxTimeout == 3
MaxLatency == 1
MaxSecretLen == 4
MaxSlice == 1
MaxWindow == 1
MaxSeed == 1
MaxPad == 2
TickSeconds == 10
MaxRetries == 3
MaxDelayMs == 2
MaxPages == 6
MaxCalls == 3
MaxLinks == 3
MaxMessages == 2
MaxQuestions == 2
MaxCleanups == 2
MaxSubmits == 2
MaxOverrun == 1

\* ------------------------------------------------------------------------
\* Program constants
\* ------------------------------------------------------------------------
SleepSeconds == 2
ThresholdDfs == 0
ThresholdReducto == 100
TimeStep == 30
CodeModulus == 1000000
CodeDigits == 6
DefaultMaxRetries == 3
DefaultDelayMs == 2000
max_concurrent_browsers == 5
CaptchaTimeout == 60
MfaTimeout == 120
MfaSleepSeconds == 3

\* the last instant the clock of the model reaches: late enough for every
\* invocation to run into its deadline
MaxTime == MaxStart + MaxTimeout + 2 * MaxLatency + 1

Invocations == {1, 2}

NoValue == [kind |-> "none"]

\* ------------------------------------------------------------------------
\* What the probe can deliver
\* ------------------------------------------------------------------------
\* a download buffer: the session it belongs to and its length in bytes
\* (an empty zip archive is 22 bytes long)
Buffers(sid) == {[sid |-> sid, len |-> n] : n \in {0, 22, 100, 101}}

\* len(download_buffer)
len(buffer) == buffer.len

\* exception messages, as sequences of words
NotFoundMarker == <<"Session", "with", "given", "id", "not", "found">>
CodeMarker == <<"-32001">>
ProbeMessages ==
    { <<"Error:", "Session", "with", "given", "id", "not", "found">>,
      <<"RPC", "-32001">>,
      <<"Session", "not", "found">>,
      <<"Connection", "reset">> }
ProbeErrors == {[type |-> "Exception", msg |-> m] : m \in ProbeMessages}

\* Python's `marker in message`
Contains(message, marker) ==
    \E i \in 1..(Len(message) - Len(marker) + 1) :
        SubSeq(message, i, i + Len(marker) - 1) = marker

TimeoutError == [type |-> "TimeoutError", msg |-> <<"Download", "timeout", "exceeded">>]

\* a variant with the threshold of download-financial-statements in both
ThresholdSame(s) == ThresholdDfs

\* the readiness threshold of each copy
Threshold(s) == IF s = "dfs" THEN ThresholdDfs ELSE ThresholdReducto

\* a variant that knows the message text only, not the error code
IsSessionNotFoundTextOnly(s, e) ==
    /\ s = "reducto"
    /\ Contains(e.msg, NotFoundMarker)

\* browserbase-reducto only: the benign "session not found" errors
IsSessionNotFound(s, e) ==
    /\ s = "reducto"
    /\ Contains(e.msg, NotFoundMarker) \/ Contains(e.msg, CodeMarker)

VARIABLES
    now,          \* asyncio.get_event_loop().time(), shared by all coroutines
    pc,           \* position of each invocation
    site,         \* which copy of the function the invocation runs
    start_time,   \* its start_time
    timeout,      \* its timeout (= retry_for_seconds)
    since,        \* when its pending await began (to_thread call or sleep)
    probes,       \* calls of bb.sessions.downloads.list made so far
    notReady,     \* probes that delivered a buffer at or below the threshold
    sleeps,       \* completed or pending asyncio.sleep(2) calls
    lastProbeAt,  \* time of its latest call of list or response.read
    outcome,      \* how it ended: returned value or raised exception
    lastSeen,     \* what its last probe delivered (buffer or exception)
    saved,        \* the buffer it wrote to downloaded_files.zip
    file,         \* content of downloaded_files.zip in the working directory
    writes,       \* number of writes of the file by each invocation
    totp,         \* state of the TOTP script (see below)
    task          \* state of the function of another script that is under way

pollerVars == <<now, pc, site, start_time, timeout, since, probes, notReady,
                sleeps, lastProbeAt, outcome, lastSeen, saved, file, writes>>
vars == <<now, pc, site, start_time, timeout, since, probes, notReady,
          sleeps, lastProbeAt, outcome, lastSeen, saved, file, writes, totp, task>>

PollerInit ==
    /\ now = 0
    /\ pc = [p \in Invocations |-> "idle"]
    /\ site = [p \in Invocations |-> "dfs"]
    /\ start_time = [p \in Invocations |-> 0]
    /\ timeout = [p \in Invocations |-> 0]
    /\ since = [p \in Invocations |-> 0]
    /\ probes = [p \in Invocations |-> 0]
    /\ notReady = [p \in Invocations |-> 0]
    /\ sleeps = [p \in Invocations |-> 0]
    /\ lastProbeAt = [p \in Invocations |-> -1]
    /\ outcome = [p \in Invocations |-> NoValue]
    /\ lastSeen = [p \in Invocations |-> NoValue]
    /\ saved = [p \in Invocations |-> NoValue]
    /\ file = NoValue
    /\ writes = [p \in Invocations |-> 0]

TotpIdle == [pc |-> "off"]
TaskIdle == [pc |-> "off"]

Init ==
    /\ PollerInit
    /\ task = TaskIdle
    /\ totp = TotpIdle

\* ------------------------------------------------------------------------
\* save_downloads_with_retry
\* ------------------------------------------------------------------------
\* a variant that keeps start_time in one place for all invocations
StartSharedClock(p, s, retry_for_seconds) ==
    /\ pc[p] = "idle"
    /\ now <= MaxStart
    /\ site' = [site EXCEPT ![p] = s]
    /\ start_time' = [q \in Invocations |-> now]
    /\ timeout' = [timeout EXCEPT ![p] = retry_for_seconds]
    /\ pc' = [pc EXCEPT ![p] = "loop"]
    /\ UNCHANGED <<now, since, probes, notReady, sleeps, lastProbeAt, outcome,
                   lastSeen, saved, file, writes, totp,
                   task>>

\* a variant that keeps the start_time of an invocation made before
StartKeepsClock(p, s, retry_for_seconds) ==
    /\ pc[p] = "idle"
    /\ now <= MaxStart
    /\ site' = [site EXCEPT ![p] = s]
    /\ start_time' = [start_time EXCEPT ![p] =
                         IF \E q \in Invocations : pc[q] # "idle"
                         THEN start_time[CHOOSE q \in Invocations : pc[q] # "idle"]
                         ELSE now]
    /\ timeout' = [timeout EXCEPT ![p] = retry_for_seconds]
    /\ pc' = [pc EXCEPT ![p] = "loop"]
    /\ UNCHANGED <<now, since, probes, notReady, sleeps, lastProbeAt, outcome,
                   lastSeen, saved, file, writes, totp,
                   task>>

\* the call: start_time and timeout are set, the loop is entered
Start(p, s, retry_for_seconds) ==
    /\ pc[p] = "idle"
    /\ now <= MaxStart
    /\ site' = [site EXCEPT ![p] = s]
    /\ start_time' = [start_time EXCEPT ![p] = now]
    /\ timeout' = [timeout EXCEPT ![p] = retry_for_seconds]
    /\ pc' = [pc EXCEPT ![p] = "loop"]
    /\ UNCHANGED <<now, since, probes, notReady, sleeps, lastProbeAt, outcome,
                   lastSeen, saved, file, writes, totp,
                   task>>

\* a variant that measures from the last await instead of from the start
elapsedSinceAwait(p) == now - since[p]

\* elapsed = loop.time() - start_time
elapsed(p) == now - start_time[p]

\* a variant that lets the iteration at the deadline itself probe once more
DeadlinePassedStrict(p) == elapsed(p) > timeout[p]

\* the deadline check of an iteration
DeadlinePassed(p) == elapsed(p) >= timeout[p]

\* top of the loop, deadline reached: raise TimeoutError
RaiseTimeout(p) ==
    /\ pc[p] = "loop"
    /\ DeadlinePassed(p)
    /\ pc' = [pc EXCEPT ![p] = "done"]
    /\ outcome' = [outcome EXCEPT ![p] = [kind |-> "raise", exc |-> TimeoutError]]
    /\ UNCHANGED <<now, site, start_time, timeout, since, probes, notReady,
                   sleeps, lastProbeAt, lastSeen, saved, file, writes, totp,
                   task>>

\* top of the loop, deadline not reached: bb.sessions.downloads.list is
\* handed to a worker thread and the coroutine awaits it
CallList(p) ==
    /\ pc[p] = "loop"
    /\ ~DeadlinePassed(p)
    /\ pc' = [pc EXCEPT ![p] = "listing"]
    /\ probes' = [probes EXCEPT ![p] = @ + 1]
    /\ since' = [since EXCEPT ![p] = now]
    /\ lastProbeAt' = [lastProbeAt EXCEPT ![p] = now]
    /\ UNCHANGED <<now, site, start_time, timeout, notReady, sleeps, outcome,
                   lastSeen, saved, file, writes, totp,
                   task>>

\* list has returned a response: response.read is handed to a worker thread
CallRead(p) ==
    /\ pc[p] = "listing"
    /\ pc' = [pc EXCEPT ![p] = "reading"]
    /\ since' = [since EXCEPT ![p] = now]
    /\ lastProbeAt' = [lastProbeAt EXCEPT ![p] = now]
    /\ UNCHANGED <<now, site, start_time, timeout, probes, notReady, sleeps,
                   outcome, lastSeen, saved, file, writes, totp,
                   task>>

\* a variant that raises a new exception built from the caught one
ExceptClauseWrapping(p, e) ==
    IF IsSessionNotFound(site[p], e)
    THEN [kind |-> "return", value |-> 0]
    ELSE [kind |-> "raise",
          exc |-> [type |-> "RuntimeError",
                   msg |-> <<"Error", "fetching", "downloads:">> \o e.msg]]

\* the except clause: return 0 on the benign error (reducto), else re-raise
ExceptClause(p, e) ==
    IF IsSessionNotFound(site[p], e)
    THEN [kind |-> "return", value |-> 0]
    ELSE [kind |-> "raise", exc |-> e]

\* list or response.read raises e
ProbeRaises(p, e) ==
    /\ pc[p] \in {"listing", "reading"}
    /\ pc' = [pc EXCEPT ![p] = "done"]
    /\ lastSeen' = [lastSeen EXCEPT ![p] = [kind |-> "exception", exc |-> e]]
    /\ outcome' = [outcome EXCEPT ![p] = ExceptClause(p, e)]
    /\ UNCHANGED <<now, site, start_time, timeout, since, probes, notReady,
                   sleeps, lastProbeAt, saved, file, writes, totp,
                   task>>

\* a variant that accepts a buffer of exactly the threshold length
IsReadyAtThreshold(s, buffer) == len(buffer) >= Threshold(s)

\* the readiness test on the buffer
IsReady(s, buffer) == len(buffer) > Threshold(s)

\* response.read has returned a buffer over the threshold: write the file,
\* return its length
ReadReady(p, buffer) ==
    /\ pc[p] = "reading"
    /\ IsReady(site[p], buffer)
    /\ pc' = [pc EXCEPT ![p] = "done"]
    /\ lastSeen' = [lastSeen EXCEPT ![p] = [kind |-> "buffer", buffer |-> buffer]]
    /\ file' = buffer
    /\ saved' = [saved EXCEPT ![p] = buffer]
    /\ writes' = [writes EXCEPT ![p] = @ + 1]
    /\ outcome' = [outcome EXCEPT ![p] = [kind |-> "return", value |-> len(buffer)]]
    /\ UNCHANGED <<now, site, start_time, timeout, since, probes, notReady,
                   sleeps, lastProbeAt, totp,
                   task>>

\* a variant that writes the file before it looks at the length
ReadNotReadyWriting(p, buffer) ==
    /\ pc[p] = "reading"
    /\ ~IsReady(site[p], buffer)
    /\ pc' = [pc EXCEPT ![p] = "sleeping"]
    /\ lastSeen' = [lastSeen EXCEPT ![p] = [kind |-> "buffer", buffer |-> buffer]]
    /\ notReady' = [notReady EXCEPT ![p] = @ + 1]
    /\ sleeps' = [sleeps EXCEPT ![p] = @ + 1]
    /\ since' = [since EXCEPT ![p] = now]
    /\ file' = buffer
    /\ saved' = [saved EXCEPT ![p] = buffer]
    /\ writes' = [writes EXCEPT ![p] = @ + 1]
    /\ UNCHANGED <<now, site, start_time, timeout, probes, lastProbeAt,
                   outcome, totp,
                   task>>

\* response.read has returned a buffer at or below the threshold:
\* asyncio.sleep(2) begins
ReadNotReady(p, buffer) ==
    /\ pc[p] = "reading"
    /\ ~IsReady(site[p], buffer)
    /\ pc' = [pc EXCEPT ![p] = "sleeping"]
    /\ lastSeen' = [lastSeen EXCEPT ![p] = [kind |-> "buffer", buffer |-> buffer]]
    /\ notReady' = [notReady EXCEPT ![p] = @ + 1]
    /\ sleeps' = [sleeps EXCEPT ![p] = @ + 1]
    /\ since' = [since EXCEPT ![p] = now]
    /\ UNCHANGED <<now, site, start_time, timeout, probes, lastProbeAt,
                   outcome, saved, file, writes, totp,
                   task>>

\* a variant whose sleep returns at once
WakeAtOnce(p) ==
    /\ pc[p] = "sleeping"
    /\ pc' = [pc EXCEPT ![p] = "loop"]
    /\ UNCHANGED <<now, site, start_time, timeout, since, probes, notReady,
                   sleeps, lastProbeAt, outcome, lastSeen, saved, file,
                   writes, totp,
                   task>>

\* asyncio.sleep(2) returns, not before two seconds have gone by
Wake(p) ==
    /\ pc[p] = "sleeping"
    /\ now >= since[p] + SleepSeconds
    /\ pc' = [pc EXCEPT ![p] = "loop"]
    /\ UNCHANGED <<now, site, start_time, timeout, since, probes, notReady,
                   sleeps, lastProbeAt, outcome, lastSeen, saved, file,
                   writes, totp,
                   task>>

\* the clock: a second goes by.  No time goes by while a coroutine is
\* runnable at the top of its loop, and a call handed to a worker thread
\* takes at most MaxLatency seconds.
Tick ==
    /\ now < MaxTime
    /\ \A p \in Invocations :
          /\ pc[p] # "loop"
          /\ pc[p] \in {"listing", "reading"} => now - since[p] < MaxLatency
    /\ now' = now + 1
    /\ UNCHANGED <<pc, site, start_time, timeout, since, probes, notReady,
                   sleeps, lastProbeAt, outcome, lastSeen, saved, file,
                   writes, totp,
                   task>>

Step(p) ==
    \/ \E s \in {"dfs", "reducto"}, t \in 0..MaxTimeout : Start(p, s, t)
    \/ RaiseTimeout(p)
    \/ CallList(p)
    \/ CallRead(p)
    \/ \E e \in ProbeErrors : ProbeRaises(p, e)
    \/ \E b \in Buffers(p) : ReadReady(p, b)
    \/ \E b \in Buffers(p) : ReadNotReady(p, b)
    \/ Wake(p)

Next ==
    \/ \E p \in Invocations : Step(p)
    \/ Tick

Spec == Init /\ [][Next]_vars

\* one invocation with the scheduling of the event loop: a runnable
\* coroutine runs, a call handed to a worker thread comes back, the clock
\* advances
LiveNext ==
    \/ Step(1)
    \/ Tick

LiveSpec ==
    /\ Init
    /\ [][LiveNext]_vars
    /\ WF_vars(Tick)
    /\ WF_vars(RaiseTimeout(1))
    /\ WF_vars(CallList(1))
    /\ WF_vars(CallRead(1))
    /\ WF_vars(Wake(1))
    /\ WF_vars(\/ \E b \in Buffers(1) : ReadReady(1, b)
               \/ \E b \in Buffers(1) : ReadNotReady(1, b)
               \/ \E e \in ProbeErrors : ProbeRaises(1, e))

\* ------------------------------------------------------------------------
\* Properties of save_downloads_with_retry
\* ------------------------------------------------------------------------
TimedOut(p) == outcome[p] = [kind |-> "raise", exc |-> TimeoutError]
Returned(p) == outcome[p].kind = "return"
SawBuffer(p) == lastSeen[p].kind = "buffer"
SawException(p) == lastSeen[p].kind = "exception"
HasMarker(e) == Contains(e.msg, NotFoundMarker) \/ Contains(e.msg, CodeMarker)
OverThreshold(p, buffer) ==
    \/ site[p] = "dfs" /\ buffer.len > 0
    \/ site[p] = "reducto" /\ buffer.len > 100

\* C1 (as stated): the probe, list or response.read, is never invoked once
\* the elapsed time since the start has reached retry_for_seconds.
C1_ProbeNeverAfterDeadline ==
    \A p \in Invocations :
        pc[p] \in {"listing", "reading"} =>
            lastProbeAt[p] - start_time[p] < timeout[p]

\* C1 (amended): in every iteration the deadline check precedes the probe.
\* An iteration that finds elapsed >= retry_for_seconds raises TimeoutError
\* without a probe call; list is called only by an iteration that found
\* elapsed < retry_for_seconds; after TimeoutError no probe follows.
C1_DeadlineCheckPrecedesProbe ==
    [][\A p \in Invocations :
          /\ (pc[p] = "loop" /\ pc'[p] # "loop") =>
                IF now - start_time[p] >= timeout[p]
                THEN /\ pc'[p] = "done"
                     /\ outcome'[p] = [kind |-> "raise", exc |-> TimeoutError]
                     /\ probes'[p] = probes[p]
                     /\ lastProbeAt'[p] = lastProbeAt[p]
                ELSE /\ pc'[p] = "listing"
                     /\ probes'[p] = probes[p] + 1
                     /\ lastProbeAt'[p] = now
          /\ probes'[p] # probes[p] =>
                pc[p] = "loop" /\ now - start_time[p] < timeout[p]
          /\ pc[p] = "done" =>
                pc'[p] = "done" /\ probes'[p] = probes[p]
                                /\ lastProbeAt'[p] = lastProbeAt[p]]_vars

\* an invocation has probed and slept, then run into its deadline
C1_Witness ==
    \E p \in Invocations : TimedOut(p) /\ probes[p] >= 1 /\ timeout[p] > 0

\* C2 (as stated): every return follows a Ready probe, after exactly k+1
\* probe calls for k NotReady probes, and the value returned is the payload
\* that probe delivered.
C2_ReturnsPayload ==
    \A p \in Invocations :
        Returned(p) =>
            /\ SawBuffer(p)
            /\ probes[p] = notReady[p] + 1
            /\ outcome[p].value = lastSeen[p].buffer

\* C2 (amended): after k NotReady probes and a Ready one the poller has made
\* exactly k+1 probe calls, stops, has written the payload to
\* downloaded_files.zip and returns the payload's length; a Ready probe is
\* the only exit with a positive return value, the other return being the 0
\* of browserbase-reducto on the session-not-found error.
C2_ReturnsLengthOfPayload ==
    \A p \in Invocations :
        Returned(p) =>
            /\ pc[p] = "done"
            /\ probes[p] = notReady[p] + 1
            /\ IF SawBuffer(p)
               THEN /\ OverThreshold(p, lastSeen[p].buffer)
                    /\ outcome[p].value = lastSeen[p].buffer.len
                    /\ outcome[p].value > 0
                    /\ saved[p] = lastSeen[p].buffer
               ELSE /\ SawException(p)
                    /\ site[p] = "reducto"
                    /\ outcome[p].value = 0
                    /\ saved[p] = NoValue

\* one NotReady probe, then a Ready one
C2_Witness ==
    \E p \in Invocations :
        Returned(p) /\ SawBuffer(p) /\ notReady[p] = 1 /\ probes[p] = 2

\* C3: an invocation whose probes all report NotReady eventually raises
\* TimeoutError, and an invocation returns a value only after a probe that
\* reported something else.
C3_NotReadyEndsInTimeout ==
    /\ \A p \in Invocations :
          (pc[p] # "idle") ~>
              (TimedOut(p) \/ SawException(p)
                 \/ (SawBuffer(p) /\ OverThreshold(p, lastSeen[p].buffer)))
    /\ [](\A p \in Invocations :
             Returned(p) =>
                 \/ SawException(p)
                 \/ SawBuffer(p) /\ OverThreshold(p, lastSeen[p].buffer))

\* an invocation timed out after nothing but NotReady probes
C3_Witness ==
    \E p \in Invocations :
        /\ TimedOut(p)
        /\ notReady[p] >= 1
        /\ probes[p] = notReady[p]
        /\ SawBuffer(p) /\ ~OverThreshold(p, lastSeen[p].buffer)

\* C4 (as stated): at every call site a probe exception that carries the
\* not-found marker ends the invocation with the return value 0.
C4_NotFoundReturnsZeroEverywhere ==
    \A p \in Invocations :
        (SawException(p) /\ HasMarker(lastSeen[p].exc)) =>
            outcome[p] = [kind |-> "return", value |-> 0]

\* C4 (amended): in browserbase-reducto a probe exception that carries the
\* not-found marker ends the invocation at once with the return value 0, no
\* sleep and no further probe; in download-financial-statements the same
\* exception is re-raised, likewise at once.
C4_NotFoundReturnsZeroInReducto ==
    \A p \in Invocations :
        (SawException(p) /\ HasMarker(lastSeen[p].exc)) =>
            /\ pc[p] = "done"
            /\ probes[p] = notReady[p] + 1
            /\ sleeps[p] = notReady[p]
            /\ writes[p] = 0
            /\ IF site[p] = "reducto"
               THEN outcome[p] = [kind |-> "return", value |-> 0]
               ELSE outcome[p] = [kind |-> "raise", exc |-> lastSeen[p].exc]

\* browserbase-reducto returned 0 on the error code after a NotReady probe
C4_Witness ==
    \E p \in Invocations :
        /\ site[p] = "reducto"
        /\ SawException(p)
        /\ lastSeen[p].exc.msg = <<"RPC", "-32001">>
        /\ notReady[p] = 1
        /\ Returned(p)

\* C5: a probe exception outside the benign not-found case leaves the
\* invocation as that same exception, on its first occurrence: no further
\* probe call and no sleep follow it.
C5_OtherExceptionsPropagate ==
    \A p \in Invocations :
        (SawException(p) /\ ~(site[p] = "reducto" /\ HasMarker(lastSeen[p].exc))) =>
            /\ pc[p] = "done"
            /\ outcome[p] = [kind |-> "raise", exc |-> lastSeen[p].exc]
            /\ probes[p] = notReady[p] + 1
            /\ sleeps[p] = notReady[p]
            /\ writes[p] = 0

\* an exception without marker was raised by the second probe
C5_Witness ==
    \E p \in Invocations :
        /\ SawException(p)
        /\ ~HasMarker(lastSeen[p].exc)
        /\ probes[p] = 2
        /\ outcome[p].kind = "raise"

\* C6 (as stated): what an invocation saved is not overwritten by the
\* other one: after a success the file holds the buffer it wrote.
C6_SavedArtifactKept ==
    \A p \in Invocations :
        saved[p] # NoValue => file = saved[p]

\* C6 (amended): the invocations share no state in memory, a step of one
\* leaves the start time, deadline, counters and outcome of the other
\* alone, and each outcome reports the invocation's own probe result; they
\* do share the file downloaded_files.zip, which holds the buffer of the
\* invocation that wrote last.
C6_OnlyFileShared ==
    /\ [](\A p \in Invocations :
             /\ saved[p] # NoValue =>
                   /\ saved[p].sid = p
                   /\ outcome[p] = [kind |-> "return", value |-> saved[p].len]
             /\ TimedOut(p) => now - start_time[p] >= timeout[p])
    /\ [](IF \A p \in Invocations : saved[p] = NoValue
          THEN file = NoValue
          ELSE \E p \in Invocations : file = saved[p])
    /\ [][\A p, q \in Invocations :
             (p # q /\ pc'[p] # pc[p]) =>
                 /\ pc'[q] = pc[q]
                 /\ start_time'[q] = start_time[q]
                 /\ timeout'[q] = timeout[q]
                 /\ probes'[q] = probes[q]
                 /\ outcome'[q] = outcome[q]
                 /\ lastSeen'[q] = lastSeen[q]
                 /\ saved'[q] = saved[q]]_vars

\* both invocations succeeded, the file holds what the second one wrote
C6_Witness ==
    /\ saved[1] # NoValue
    /\ saved[2] # NoValue
    /\ file = saved[2]
    /\ start_time[1] # start_time[2]

C19_FreshBudgetPerInvocation ==
    \A p \in Invocations :
        pc[p] # "idle" =>
            /\ start_time[p] <= now
            /\ (pc[p] = "loop" /\ probes[p] = 0) => now = start_time[p]
            /\ timeout[p] > 0 => (pc[p] = "loop" \/ probes[p] >= 1)
            /\ timeout[p] <= 0 =>
                  probes[p] = 0 /\ (pc[p] = "loop" \/ TimedOut(p))

\* the second invocation, started after the first one had timed out
\* without a probe, has probed
C19_Witness ==
    /\ timeout[1] = 0 /\ TimedOut(1) /\ probes[1] = 0
    /\ start_time[2] > start_time[1]
    /\ timeout[2] > 0 /\ probes[2] >= 1

\* C20: probes and sleeps alternate: a NotReady probe is followed by one
\* sleep of two seconds before the next deadline check, no sleep precedes
\* the first probe, none follows a Ready probe, an exception or a timeout.
C20_ProbesAndSleepsAlternate ==
    /\ [](\A p \in Invocations :
             /\ sleeps[p] = notReady[p]
             /\ pc[p] \in {"idle", "loop", "sleeping"} => probes[p] = sleeps[p]
             /\ pc[p] \in {"listing", "reading"} => probes[p] = sleeps[p] + 1
             /\ pc[p] = "done" =>
                   IF TimedOut(p) THEN probes[p] = sleeps[p]
                   ELSE probes[p] = sleeps[p] + 1)
    /\ [][\A p \in Invocations :
             /\ sleeps'[p] # sleeps[p] =>
                   /\ pc[p] = "reading" /\ pc'[p] = "sleeping"
                   /\ sleeps'[p] = sleeps[p] + 1
                   /\ lastSeen'[p].kind = "buffer"
                   /\ ~OverThreshold(p, lastSeen'[p].buffer)
             /\ (pc[p] = "reading" /\ pc'[p] = "sleeping") =>
                   sleeps'[p] = sleeps[p] + 1
             /\ (pc[p] = "sleeping" /\ pc'[p] # "sleeping") =>
                   pc'[p] = "loop" /\ now >= since[p] + 2
             /\ (pc[p] = "sleeping" /\ pc'[p] = "sleeping") =>
                   since'[p] = since[p]]_vars

\* the second probe is under way, after one sleep
C20_Witness ==
    \E p \in Invocations :
        pc[p] = "reading" /\ probes[p] = 2 /\ sleeps[p] = 1

\* ------------------------------------------------------------------------
\* generate_totp
\* ------------------------------------------------------------------------
\* A Python str is a sequence of one-character strings, bytes are a sequence
\* of numbers in 0..255.

base32chars ==
    << "A", "B", "C", "D", "E", "F", "G", "H", "I", "J", "K", "L", "M",
       "N", "O", "P", "Q", "R", "S", "T", "U", "V", "W", "X", "Y", "Z",
       "2", "3", "4", "5", "6", "7" >>

LowerCase ==
    << "a", "b", "c", "d", "e", "f", "g", "h", "i", "j", "k", "l", "m",
       "n", "o", "p", "q", "r", "s", "t", "u", "v", "w", "x", "y", "z" >>

HexDigits ==
    << "0", "1", "2", "3", "4", "5", "6", "7",
       "8", "9", "a", "b", "c", "d", "e", "f" >>

DecDigits == << "0", "1", "2", "3", "4", "5", "6", "7", "8", "9" >>

\* position of c in the string chars (from 0), -1 when absent: str.find
find(chars, c) ==
    IF \E i \in 1..Len(chars) : chars[i] = c
    THEN (CHOOSE i \in 1..Len(chars) :
              chars[i] = c /\ \A j \in 1..(i - 1) : chars[j] # c) - 1
    ELSE -1

\* str.upper, character by character
upper(s) ==
    [i \in 1..Len(s) |->
        IF find(LowerCase, s[i]) # -1
        THEN base32chars[find(LowerCase, s[i]) + 1] ELSE s[i]]

\* a variant that removes one trailing "=" only
rstripOnce(s) ==
    IF Len(s) > 0 /\ s[Len(s)] = "=" THEN SubSeq(s, 1, Len(s) - 1) ELSE s

\* str.rstrip("=")
RECURSIVE rstrip(_)
rstrip(s) ==
    IF Len(s) > 0 /\ s[Len(s)] = "="
    THEN rstrip(SubSeq(s, 1, Len(s) - 1))
    ELSE s

\* format(val, "05b"): five binary digits, most significant first
format05b(val) ==
    << (val \div 16) % 2, (val \div 8) % 2, (val \div 4) % 2,
       (val \div 2) % 2, val % 2 >>

\* int(chunk, 2)
RECURSIVE int2(_)
int2(chunk) ==
    IF Len(chunk) = 0 THEN 0
    ELSE 2 * int2(SubSeq(chunk, 1, Len(chunk) - 1)) + chunk[Len(chunk)]

\* the bit string built by the first loop, for a secret of valid characters
RECURSIVE SecretBits(_)
SecretBits(s) ==
    IF Len(s) = 0 THEN << >>
    ELSE SecretBits(SubSeq(s, 1, Len(s) - 1))
             \o format05b(find(base32chars, s[Len(s)]))

\* the second loop: for i in range(0, len(bits) - 3, 4), one hex digit each
HexOfBits(bits) ==
    LET n == IF Len(bits) - 3 <= 0 THEN 0 ELSE (Len(bits) - 3 + 3) \div 4
    IN  [k \in 1..n |->
            HexDigits[int2(SubSeq(bits, 4 * (k - 1) + 1, 4 * (k - 1) + 4)) + 1]]

ValueErrorChar ==
    [type |-> "ValueError", msg |-> "Invalid base32 character in secret"]
OverflowError ==
    [type |-> "OverflowError", msg |-> "int too big or negative to convert"]

Ok(v) == [kind |-> "return", value |-> v]
Raise(e) == [kind |-> "raise", exc |-> e]

\* bytes.fromhex: two hex digits per byte, ValueError on a dangling digit
fromhex(hex_str) ==
    IF Len(hex_str) % 2 = 1
    THEN Raise([type |-> "ValueError",
                msg |-> "non-hexadecimal number found in fromhex() arg"])
    ELSE Ok([j \in 1..(Len(hex_str) \div 2) |->
                16 * find(HexDigits, hex_str[2 * j - 1])
                   + find(HexDigits, hex_str[2 * j])])

\* secret.upper().rstrip("=")
CleanSecret(secret) == rstrip(upper(secret))

\* a variant that skips the characters it does not know
DecodeSecretSkipping(secret) ==
    LET cleaned == CleanSecret(secret)
        known == SelectSeq(cleaned, LAMBDA c : find(base32chars, c) # -1)
    IN  fromhex(HexOfBits(SecretBits(known)))

\* the Base32 decoding step: secret -> secret_bytes
DecodeSecret(secret) ==
    LET cleaned == CleanSecret(secret)
    IN  IF \E i \in 1..Len(cleaned) : find(base32chars, cleaned[i]) = -1
        THEN Raise(ValueErrorChar)
        ELSE fromhex(HexOfBits(SecretBits(cleaned)))

\* the k low-order bytes of n >= 0, most significant first
RECURSIVE BigEndian(_, _)
BigEndian(n, k) ==
    IF k = 0 THEN << >>
    ELSE BigEndian(n \div 256, k - 1) \o << n % 256 >>

\* n with its k low-order bytes shifted out
RECURSIVE ShiftBytes(_, _)
ShiftBytes(n, k) == IF k = 0 THEN n ELSE ShiftBytes(n \div 256, k - 1)

\* int.to_bytes(8, byteorder="big"): OverflowError unless 0 <= n < 2^64
to_bytes8(n) ==
    IF n < 0 \/ ShiftBytes(n, 8) # 0
    THEN Raise(OverflowError)
    ELSE Ok(BigEndian(n, 8))

\* a variant that adds the window to the seconds, before the division
TimeWindowOfSum(t, window) == (t + window) \div TimeStep

\* a variant that rounds to the nearest slice instead of down
TimeWindowRounded(t, window) == ((t + TimeStep \div 2) \div TimeStep) + window

\* int(time.time() // 30) + window
TimeWindow(t, window) == (t \div TimeStep) + window

RECURSIVE SumBytes(_)
SumBytes(b) ==
    IF Len(b) = 0 THEN 0
    ELSE (3 * SumBytes(SubSeq(b, 1, Len(b) - 1)) + b[Len(b)] + 1) % 65521

\* hmac.new(key, msg, hashlib.sha1).digest(): the library function is not
\* computed; it is one fixed function (chosen by seed) from key and
\* message to 20 bytes
hmac_sha1(seed, key, msg) ==
    LET h == (151 * seed + 7 * SumBytes(key) + SumBytes(msg)) % 65521
    IN  [i \in 1..20 |-> ((h + 1) * (i * i + 7) + 89 * i + h \div 256) % 256]

\* a variant that takes the offset from the first byte of the digest
TruncateAtFirstByte(hmac_result) ==
    LET offset == hmac_result[1] % 16
    IN  (hmac_result[offset + 1] % 128) * (2 ^ 24)
          + (hmac_result[offset + 2] % 256) * (2 ^ 16)
          + (hmac_result[offset + 3] % 256) * (2 ^ 8)
          + (hmac_result[offset + 4] % 256)

\* the dynamic truncation: & and | on disjoint bit ranges, as arithmetic
Truncate(hmac_result) ==
    LET offset == hmac_result[20] % 16
    IN  (hmac_result[offset + 1] % 128) * (2 ^ 24)
          + (hmac_result[offset + 2] % 256) * (2 ^ 16)
          + (hmac_result[offset + 3] % 256) * (2 ^ 8)
          + (hmac_result[offset + 4] % 256)

\* str(n) for n >= 0
RECURSIVE str(_)
str(n) ==
    IF n < 10 THEN << DecDigits[n + 1] >>
    ELSE str(n \div 10) \o << DecDigits[(n % 10) + 1] >>

\* str.zfill(width)
zfill(s, width) ==
    [i \in 1..(width - Len(s)) |-> "0"] \o s

\* generate_totp(secret, window) at clock reading t
generate_totp(secret, window, t, seed) ==
    LET key == DecodeSecret(secret)
        time_bytes == to_bytes8(TimeWindow(t, window))
    IN  IF key.kind = "raise" THEN key
        ELSE IF time_bytes.kind = "raise" THEN time_bytes
        ELSE Ok(zfill(str(Truncate(hmac_sha1(seed, key.value, time_bytes.value))
                            % CodeModulus), CodeDigits))

\* dict.get(key, default)
DictGet(d, k, default) == IF k \in DOMAIN d THEN d[k] ELSE default

\* inputs of the model
RECURSIVE Strings(_)
Strings(n) ==
    IF n = 0 THEN {<< >>}
    ELSE LET shorter == Strings(n - 1)
         IN  shorter \cup {Append(s, c) : s \in {x \in shorter : Len(x) = n - 1},
                                          c \in {"A", "7", "b", "=", "1"}}
Secrets == Strings(MaxSecretLen)
Credentials ==
    {[totp_secret |-> s] : s \in Secrets} \cup {[email |-> <<"x">>]}
Windows == (0 - MaxWindow)..MaxWindow
\* clock readings: the first and the last second of some 30-second slices,
\* late enough for the time window to stay positive with every window drawn
Clocks == {TimeStep * q + r : q \in MaxWindow..(MaxWindow + MaxSlice),
                              r \in {0, TimeStep - 1}}
Seeds == 0..MaxSeed

\* the state of the MFA script before it generates the code: the extracted
\* credentials, the clock, and the library's HMAC function
TotpInit ==
    /\ PollerInit
    /\ task = TaskIdle
    /\ totp \in [pc : {"extracted"}, credentials_data : Credentials,
                 window : Windows, clock : Clocks, seed : Seeds,
                 secret : {NoValue}, secret_bytes : {NoValue},
                 totp_code : {NoValue}]

\* totp_code = generate_totp(credentials_data.get("totp_secret", ""))
\* (the model also draws window, which main leaves at its default 0)
Generate ==
    /\ totp.pc = "extracted"
    /\ LET secret == DictGet(totp.credentials_data, "totp_secret", << >>)
       IN  totp' = [totp EXCEPT
                      !.pc = "generated",
                      !.secret = secret,
                      !.secret_bytes = DecodeSecret(secret),
                      !.totp_code = generate_totp(secret, totp.window,
                                                  totp.clock, totp.seed)]
    /\ UNCHANGED <<pollerVars, task>>

TotpNext == Generate

TotpSpec == TotpInit /\ [][TotpNext]_vars

\* ------------------------------------------------------------------------
\* Properties of generate_totp
\* ------------------------------------------------------------------------
Alphabet == {base32chars[i] : i \in 1..Len(base32chars)}
Digits == {DecDigits[i] : i \in 1..Len(DecDigits)}
Generated == totp.pc = "generated"

\* the secret as the claims describe it: upper-cased, trailing "=" removed
UpperCased(s) ==
    [i \in 1..Len(s) |->
        IF \E k \in 1..26 : LowerCase[k] = s[i]
        THEN base32chars[CHOOSE k \in 1..26 : LowerCase[k] = s[i]]
        ELSE s[i]]
Unpadded(s) ==
    LET last == IF \E i \in 1..Len(s) : s[i] # "="
                THEN CHOOSE i \in 1..Len(s) :
                         s[i] # "=" /\ \A j \in (i + 1)..Len(s) : s[j] = "="
                ELSE 0
    IN  SubSeq(s, 1, last)
Cleaned(s) == Unpadded(UpperCased(s))
OnlyAlphabet(s) == \A i \in 1..Len(s) : s[i] \in Alphabet

\* the bits of a string of alphabet characters, five per character
BitAt(s, k) ==
    LET val == (CHOOSE i \in 1..32 : base32chars[i] = s[((k - 1) \div 5) + 1]) - 1
    IN  (val \div (2 ^ (4 - ((k - 1) % 5)))) % 2
ByteAt(s, j) ==
    128 * BitAt(s, 8 * j - 7) + 64 * BitAt(s, 8 * j - 6)
      + 32 * BitAt(s, 8 * j - 5) + 16 * BitAt(s, 8 * j - 4)
      + 8 * BitAt(s, 8 * j - 3) + 4 * BitAt(s, 8 * j - 2)
      + 2 * BitAt(s, 8 * j - 1) + BitAt(s, 8 * j)

\* C7: for every secret of Base32 alphabet characters, every window and
\* every clock value, generate_totp returns exactly six decimal digits.
C7_AlwaysSixDigits ==
    (Generated /\ OnlyAlphabet(totp.secret)) =>
        /\ totp.totp_code.kind = "return"
        /\ Len(totp.totp_code.value) = 6
        /\ \A i \in 1..6 : totp.totp_code.value[i] \in Digits

\* C8: for a cleaned secret of n alphabet characters the decoding step
\* yields, without an error, exactly floor(5n/8) bytes, the leading bits of
\* the concatenated 5-bit values.
C8_DecodesLeadingBytes ==
    (Generated /\ OnlyAlphabet(Cleaned(totp.secret))) =>
        LET c == Cleaned(totp.secret)
        IN  /\ totp.secret_bytes.kind = "return"
            /\ Len(totp.secret_bytes.value) = (5 * Len(c)) \div 8
            /\ \A j \in 1..((5 * Len(c)) \div 8) :
                   totp.secret_bytes.value[j] = ByteAt(c, j)

\* C9: a secret that, upper-cased and with its trailing "=" removed, still
\* holds a character outside the Base32 alphabet makes generate_totp fail
\* with the invalid-secret error: no code is returned.
C9_InvalidCharacterRejected ==
    (Generated /\ ~OnlyAlphabet(Cleaned(totp.secret))) =>
        /\ totp.totp_code = [kind |-> "raise", exc |-> ValueErrorChar]
        /\ totp.secret_bytes = [kind |-> "raise", exc |-> ValueErrorChar]

\* a secret with "=" before its last character has been rejected
C9_Witness ==
    /\ Generated
    /\ totp.secret = <<"A", "=", "b">>
    /\ totp.totp_code.kind = "raise"

\* C10: a secret that decodes to zero bytes, the empty string or "=" only,
\* is rejected: no code is computed from an empty key.
C10_EmptyKeyRejected ==
    (Generated /\ Cleaned(totp.secret) = << >>) =>
        totp.totp_code.kind = "raise"

\* ------------------------------------------------------------------------
\* Calls of generate_totp
\* ------------------------------------------------------------------------
\* generate_totp called on its own: the secret, the clock reading and the
\* library's HMAC function are drawn at the start, the other arguments by
\* the call.
\* 20-byte digests: every last byte, over some fillings of the other bytes
Digests ==
    {[i \in 1..20 |-> IF i = 20 THEN last ELSE (first + step * i) % 256] :
        last \in 0..255, first \in {0, 127, 128, 255}, step \in {0, 37}}

\* the inputs: those of a call, or a digest for the truncation step alone
CallInit ==
    /\ PollerInit
    /\ task = TaskIdle
    /\ \/ totp \in [pc : {"call"}, secret : Secrets, clock : Clocks,
                    seed : Seeds, digest : {NoValue}, args : {NoValue},
                    results : {NoValue}]
       \/ totp \in [pc : {"digest"}, secret : {<< >>}, clock : {0},
                    seed : {0}, digest : Digests, args : {NoValue},
                    results : {NoValue}]

\* generate_totp(secret, window=1) now and generate_totp(secret, window=0)
\* thirty seconds later
CallWindowPair ==
    /\ totp.pc = "call"
    /\ totp' = [totp EXCEPT
                  !.pc = "window pair",
                  !.results = << generate_totp(totp.secret, 1, totp.clock,
                                               totp.seed),
                                 generate_totp(totp.secret, 0,
                                               totp.clock + TimeStep,
                                               totp.seed) >>]
    /\ UNCHANGED <<pollerVars, task>>

\* s.lower(), for the letters of the alphabet
LowerCased(s) ==
    [i \in 1..Len(s) |->
        IF \E k \in 1..26 : base32chars[k] = s[i]
        THEN LowerCase[CHOOSE k \in 1..26 : base32chars[k] = s[i]]
        ELSE s[i]]

\* generate_totp on the secret as given, in lower case, and with k "="
\* appended (s + "=" * k), at one clock reading
CallVariants(k) ==
    /\ totp.pc = "call"
    /\ totp' = [totp EXCEPT
                  !.pc = "variants",
                  !.args = [pad |-> k],
                  !.results = << generate_totp(totp.secret, 0, totp.clock,
                                               totp.seed),
                                 generate_totp(LowerCased(totp.secret), 0,
                                               totp.clock, totp.seed),
                                 generate_totp(
                                     totp.secret \o [i \in 1..k |-> "="], 0,
                                     totp.clock, totp.seed) >>]
    /\ UNCHANGED <<pollerVars, task>>

\* the last second of the 30-second slice of t
SliceEnd(t) == TimeStep * (t \div TimeStep) + (TimeStep - 1)

\* two calls generate_totp(secret, window), the second at the later clock
\* reading t2
CallTwice(window, t2) ==
    /\ totp.pc = "call"
    /\ totp' = [totp EXCEPT
                  !.pc = "twice",
                  !.args = [window |-> window, clock2 |-> t2],
                  !.results = << generate_totp(totp.secret, window,
                                               totp.clock, totp.seed),
                                 generate_totp(totp.secret, window, t2,
                                               totp.seed) >>]
    /\ UNCHANGED <<pollerVars, task>>

\* the last steps of generate_totp on a digest: truncation, modulus,
\* str(...).zfill(6)
TruncateDigest ==
    /\ totp.pc = "digest"
    /\ totp' = [totp EXCEPT
                  !.pc = "truncated",
                  !.results = [code |-> Truncate(totp.digest),
                               text |-> zfill(str(Truncate(totp.digest)
                                                    % CodeModulus),
                                                CodeDigits)]]
    /\ UNCHANGED <<pollerVars, task>>

\* generate_totp(secret, window) with any signed window
CallWindow(window) ==
    /\ totp.pc = "call"
    /\ totp' = [totp EXCEPT
                  !.pc = "window",
                  !.args = [window |-> window,
                            time_window |-> TimeWindow(totp.clock, window)],
                  !.results = << generate_totp(totp.secret, window,
                                               totp.clock, totp.seed) >>]
    /\ UNCHANGED <<pollerVars, task>>

CallNext ==
    \/ CallWindowPair
    \/ \E w \in (0 - (MaxWindow + MaxSlice + 2))..MaxWindow : CallWindow(w)
    \/ TruncateDigest
    \/ \E w \in Windows,
          t2 \in {u \in {totp.clock, totp.clock + 1, SliceEnd(totp.clock)} :
                    u <= SliceEnd(totp.clock)} : CallTwice(w, t2)
    \/ \E k \in 0..MaxPad : CallVariants(k)

CallSpec == CallInit /\ [][CallNext]_vars

\* C11: generate_totp(secret, window=1) at time t returns what
\* generate_totp(secret, window=0) returns at time t + 30 seconds.
C11_NextWindowIsThirtySecondsLater ==
    totp.pc = "window pair" => totp.results[1] = totp.results[2]

\* both calls of the pair returned a code
C11_Witness ==
    /\ totp.pc = "window pair"
    /\ totp.secret = <<"b", "7">>
    /\ totp.results[1].kind = "return"
    /\ totp.results[2].kind = "return"

C13_SameSliceSameCode ==
    (/\ totp.pc = "twice"
     /\ totp.clock \div 30 = totp.args.clock2 \div 30) =>
        totp.results[1] = totp.results[2]

\* two calls at the two ends of a slice returned a code
C13_Witness ==
    /\ totp.pc = "twice"
    /\ totp.args.clock2 = totp.clock + 29
    /\ totp.results[1].kind = "return"
    /\ totp.results[2].kind = "return"

\* the number a string of decimal digits denotes
RECURSIVE DecValue(_)
DecValue(text) ==
    IF Len(text) = 0 THEN 0
    ELSE 10 * DecValue(SubSeq(text, 1, Len(text) - 1))
           + ((CHOOSE i \in 1..10 : DecDigits[i] = text[Len(text)]) - 1)

\* C14: the offset digest[19] & 0x0F lies in 0..15, the four bytes at
\* offset..offset+3 are inside the digest, their combination with the top
\* bit masked lies in 0..2^31-1, and the code returned is it mod 1,000,000.
C14_TruncationInRange ==
    totp.pc = "truncated" =>
        LET d == totp.digest
            offset == d[20] % 16
            top == IF d[offset + 1] >= 128 THEN d[offset + 1] - 128
                   ELSE d[offset + 1]
        IN  /\ offset \in 0..15
            /\ \A k \in 0..3 : offset + k <= 19
            /\ totp.results.code =
                   ((top * 256 + d[offset + 2]) * 256 + d[offset + 3]) * 256
                     + d[offset + 4]
            /\ totp.results.code \in 0..2147483647
            /\ Len(totp.results.text) = 6
            /\ DecValue(totp.results.text) = totp.results.code % 1000000

\* a digest with offset 15 and all bits set: the largest truncated value
C14_Witness ==
    /\ totp.pc = "truncated"
    /\ totp.digest[20] = 255
    /\ totp.results.code = 2147483647
    /\ totp.results.text = <<"4", "8", "3", "6", "4", "7">>

\* C15: for every valid secret, every signed window and every clock value
\* generate_totp returns a code; the invalid-secret error is its only
\* failure.
C15_OnlyInvalidSecretFails ==
    totp.pc = "window" =>
        \/ totp.results[1].kind = "return"
        \/ /\ totp.results[1] = [kind |-> "raise", exc |-> ValueErrorChar]
           /\ ~OnlyAlphabet(Cleaned(totp.secret))

\* ------------------------------------------------------------------------
\* main of the two MFA scripts: generate, fill, submit, check, retry
\* ------------------------------------------------------------------------
\* TEST_CREDENTIALS["totp_secret"] of playwright-mfa-handling
TestSecret ==
    << "I", "6", "5", "V", "U", "7", "K", "5",
       "Z", "Q", "L", "7", "W", "B", "4", "E" >>

\* the secret main passes to generate_totp: the extracted one (or "") in
\* mfa-handling, the constant in playwright-mfa-handling
MfaSecrets(script) ==
    IF script = "mfa-handling"
    THEN {DictGet(c, "totp_secret", << >>) :
             c \in {d \in Credentials :
                       "totp_secret" \in DOMAIN d => Len(d.totp_secret) <= 2}}
    ELSE {TestSecret}

MfaInit ==
    /\ PollerInit
    /\ task = TaskIdle
    /\ \E script \in {"mfa-handling", "playwright-mfa-handling"} :
          totp \in [pc : {"navigated"}, script : {script},
                    secret : MfaSecrets(script), clock : Clocks, seed : Seeds,
                    calledAt : {<< >>}, counters : {<< >>}, codes : {<< >>},
                    submits : {0}, checks : {<< >>}]

\* a call generate_totp(secret) of main at the present clock reading: the
\* code for the form, or the exception that ends main
MfaGenerate(from, to) ==
    /\ totp.pc = from
    /\ LET code == generate_totp(totp.secret, 0, totp.clock, totp.seed)
       IN  totp' = [totp EXCEPT
                      !.pc = IF code.kind = "return" THEN to ELSE "error",
                      !.calledAt = Append(@, totp.clock),
                      !.counters = Append(@, TimeWindow(totp.clock, 0)),
                      !.codes = Append(@, code)]
    /\ UNCHANGED <<pollerVars, task>>

\* totp_code = generate_totp(...) and the form filled in with it
GenerateFirst == MfaGenerate("navigated", "filled")

\* the form is submitted
MfaSubmit(from, to) ==
    /\ totp.pc = from
    /\ totp' = [totp EXCEPT !.pc = to, !.submits = @ + 1]
    /\ UNCHANGED <<pollerVars, task>>

SubmitFirst == MfaSubmit("filled", "submitted")

\* the authentication check after the first submit
CheckFirst(success) ==
    /\ totp.pc = "submitted"
    /\ totp' = [totp EXCEPT
                  !.pc = IF success THEN "done" ELSE "retrying",
                  !.checks = Append(@, success)]
    /\ UNCHANGED <<pollerVars, task>>

\* new_code = generate_totp(...) and the form filled in again
GenerateRetry == MfaGenerate("retrying", "refilled")

SubmitRetry == MfaSubmit("refilled", "resubmitted")

\* a variant that retries again when the retry fails too
CheckRetryAgain(success) ==
    /\ totp.pc = "resubmitted"
    /\ totp' = [totp EXCEPT
                  !.pc = IF success THEN "done" ELSE "retrying",
                  !.checks = Append(@, success)]
    /\ UNCHANGED <<pollerVars, task>>

\* the check after the retry: main ends whatever it reports
CheckRetry(success) ==
    /\ totp.pc = "resubmitted"
    /\ totp' = [totp EXCEPT !.pc = "done", !.checks = Append(@, success)]
    /\ UNCHANGED <<pollerVars, task>>

\* a call of the browser or of the SDK raises: main ends in its handler
MfaFails ==
    /\ totp.pc \in {"navigated", "filled", "submitted", "retrying",
                    "refilled", "resubmitted"}
    /\ totp' = [totp EXCEPT !.pc = "error"]
    /\ UNCHANGED <<pollerVars, task>>

\* time.time() while main runs, in steps of TickSeconds
MfaTick ==
    /\ totp.pc \in {"navigated", "filled", "submitted", "retrying",
                    "refilled", "resubmitted"}
    /\ totp.clock + TickSeconds <= TimeStep * (MaxWindow + MaxSlice + 2) - 1
    /\ totp' = [totp EXCEPT !.clock = @ + TickSeconds]
    /\ UNCHANGED <<pollerVars, task>>

MfaNext ==
    \/ GenerateFirst
    \/ SubmitFirst
    \/ \E success \in BOOLEAN : CheckFirst(success)
    \/ GenerateRetry
    \/ SubmitRetry
    \/ \E success \in BOOLEAN : CheckRetry(success)
    \/ MfaFails
    \/ MfaTick

MfaSpec == MfaInit /\ [][MfaNext]_vars

scriptVars == <<pollerVars, totp>>

\* asyncio.CancelledError, a BaseException that is no Exception
CancelledError == [kind |-> "raise", type |-> "CancelledError"]

\* the call with_retry(fn, description, max_retries, delay_ms):
\* last_error = None, the for loop is about to start
RetryInit ==
    /\ PollerInit
    /\ totp = TotpIdle
    /\ task \in [pc : {"for"},
                 max_retries : (0..MaxRetries) \cup {DefaultMaxRetries},
                 delay_ms : (1..MaxDelayMs) \cup {DefaultDelayMs},
                 attempt : {0}, last_error : {NoValue},
                 history : {<< >>}, slept : {<< >>}, outcome : {NoValue}]

\* for attempt in range(1, max_retries + 1): the next attempt begins
ForAttempt ==
    /\ task.pc = "for"
    /\ task.attempt < task.max_retries
    /\ task' = [task EXCEPT !.pc = "calling", !.attempt = @ + 1]
    /\ UNCHANGED scriptVars

\* the range is exhausted: raise Exception(f"{description} - Failed after
\* {max_retries} attempts: {last_error}")
ForExhausted ==
    /\ task.pc = "for"
    /\ task.attempt >= task.max_retries
    /\ task' = [task EXCEPT
                  !.pc = "done",
                  !.outcome = [kind |-> "raise", type |-> "Exception",
                               attempts |-> task.max_retries,
                               last_error |-> task.last_error]]
    /\ UNCHANGED scriptVars

\* return await fn()
FnReturns(v) ==
    /\ task.pc = "calling"
    /\ task' = [task EXCEPT
                  !.pc = "done",
                  !.history = Append(@, [kind |-> "return", value |-> v]),
                  !.outcome = [kind |-> "return", value |-> v]]
    /\ UNCHANGED scriptVars

\* a variant that sleeps after the last attempt as well
FnRaisesThenSleeps(e) ==
    /\ task.pc = "calling"
    /\ task' = [task EXCEPT
                  !.pc = "sleeping",
                  !.history = Append(@, [kind |-> "raise", error |-> e]),
                  !.last_error = e,
                  !.slept = Append(@, task.delay_ms)]
    /\ UNCHANGED scriptVars

\* fn() raises an Exception: last_error = error, and if attempts are left
\* await asyncio.sleep(delay_ms / 1000.0) (slept records its milliseconds)
FnRaises(e) ==
    /\ task.pc = "calling"
    /\ task' = [task EXCEPT
                  !.pc = IF task.attempt < task.max_retries
                         THEN "sleeping" ELSE "for",
                  !.history = Append(@, [kind |-> "raise", error |-> e]),
                  !.last_error = e,
                  !.slept = IF task.attempt < task.max_retries
                            THEN Append(@, task.delay_ms) ELSE @]
    /\ UNCHANGED scriptVars

\* fn() is cancelled: except Exception does not catch it
FnCancelled ==
    /\ task.pc = "calling"
    /\ task' = [task EXCEPT
                  !.pc = "done",
                  !.history = Append(@, CancelledError),
                  !.outcome = CancelledError]
    /\ UNCHANGED scriptVars

\* asyncio.sleep returns
SleepReturns ==
    /\ task.pc = "sleeping"
    /\ task' = [task EXCEPT !.pc = "for"]
    /\ UNCHANGED scriptVars

\* fn() may return a value, raise an Exception, or be cancelled
RetryNext ==
    \/ ForAttempt
    \/ ForExhausted
    \/ \E v \in {"v1", "v2"} : FnReturns(v)
    \/ \E e \in {"e1", "e2"} : FnRaises(e)
    \/ FnCancelled
    \/ SleepReturns

\* fn and the sleep return, and the event loop runs the coroutine on
RetrySpec == RetryInit /\ [][RetryNext]_vars /\ WF_vars(RetryNext)

\* C21: with_retry invokes fn at most max_retries times, returns the
\* result of the first invocation that succeeds and invokes nothing after
\* it, sleeps between attempts only and never after the last one, raises an
\* exception that reports the last error after max_retries failures, and
\* terminates.
C21_BoundedRetries ==
    /\ [](/\ Len(task.history) <= task.max_retries
          /\ Len(task.slept) <= Len(task.history)
          /\ Len(task.history) = task.max_retries =>
                Len(task.slept) < Len(task.history) \/ task.max_retries = 0
          /\ \A k \in 1..Len(task.history) :
                k < Len(task.history) => task.history[k].kind = "raise"
                                         /\ "error" \in DOMAIN task.history[k]
          /\ (task.pc = "done" /\ task.outcome.kind = "return") =>
                /\ Len(task.history) >= 1
                /\ task.history[Len(task.history)] = task.outcome
                /\ Len(task.slept) = Len(task.history) - 1
          /\ (task.pc = "done" /\ task.outcome.kind = "raise"
                /\ task.outcome.type = "Exception") =>
                /\ Len(task.history) = task.max_retries
                /\ \A k \in 1..Len(task.history) :
                      task.history[k].kind = "raise"
                /\ task.max_retries >= 1 =>
                      /\ task.outcome.last_error
                            = task.history[task.max_retries].error
                      /\ Len(task.slept) = task.max_retries - 1)
    /\ [][/\ task.pc = "done" => task' = task
          /\ task'.slept # task.slept =>
                /\ task.pc = "calling"
                /\ Len(task'.history) < task.max_retries]_vars
    /\ <>(task.pc = "done")

\* three failures with two sleeps in between, then the exception with the
\* third error
C21_Witness ==
    /\ task.pc = "done"
    /\ task.max_retries = 3
    /\ Len(task.history) = 3
    /\ Len(task.slept) = 2
    /\ task.outcome = [kind |-> "raise", type |-> "Exception",
                       attempts |-> 3, last_error |-> "e2"]
    /\ task.history[1].error = "e1"

\* C22: the delays slept grow exponentially: the first is delay_ms, and
\* each later one is the same multiple, greater than one, of the one before.
C22_ExponentialBackoff ==
    /\ Len(task.slept) >= 1 => task.slept[1] = task.delay_ms
    /\ \E factor \in 2..(MaxRetries + 2) :
          \A k \in 1..Len(task.slept) :
              k > 1 => task.slept[k] = factor * task.slept[k - 1]

\* ------------------------------------------------------------------------
\* main of exa-browserbase in concurrent mode: task is the state of main
\* and of the apply_to_job coroutines that asyncio.gather runs
\* ------------------------------------------------------------------------
\* a variant of the slice that takes all the pages left
ChunkToEnd(i, n) == (i + 1)..n

\* chunk = careers_pages[i : i + max_browsers], as 1-based page numbers
Chunk(i, n) ==
    (i + 1)..(IF i + max_concurrent_browsers < n
              THEN i + max_concurrent_browsers ELSE n)

\* the pages of a set in input order
RECURSIVE InOrder(_)
InOrder(S) ==
    IF S = {} THEN << >>
    ELSE LET m == CHOOSE x \in S : \A y \in S : x <= y
         IN  <<m>> \o InOrder(S \ {m})

\* main has the careers pages and is about to enter the for loop
ApplyInit ==
    /\ PollerInit
    /\ totp = TotpIdle
    /\ \E n \in 1..MaxPages :
          task = [pc |-> "for", n |-> n, i |-> 0,
                  sess |-> [j \in 1..n |-> "none"],
                  result |-> [j \in 1..n |-> NoValue],
                  opened |-> {}, results |-> << >>]

\* for i in range(0, len(careers_pages), max_browsers): the coroutines of
\* the next chunk are handed to asyncio.gather
StartChunk ==
    /\ task.pc = "for"
    /\ task.i < task.n
    /\ task' = [task EXCEPT
                  !.pc = "gather",
                  !.sess = [j \in 1..task.n |->
                              IF j \in Chunk(task.i, task.n)
                              THEN "new" ELSE task.sess[j]]]
    /\ UNCHANGED scriptVars

\* the range is exhausted: main goes on to the summary
ForEnds ==
    /\ task.pc = "for"
    /\ task.i >= task.n
    /\ task' = [task EXCEPT !.pc = "summary"]
    /\ UNCHANGED scriptVars

\* client.sessions.start has returned (ok): the session is open; or it
\* raises, outside the try: apply_to_job raises
SessionStarts(j, ok) ==
    /\ task.sess[j] = "new"
    /\ task' = IF ok
               THEN [task EXCEPT !.sess[j] = "open", !.opened = @ \cup {j}]
               ELSE [task EXCEPT !.sess[j] = "raised"]
    /\ UNCHANGED scriptVars

\* the try block returns its dict, or the except branch its dict with
\* success False: the finally clause is next
BodyEnds(j, success) ==
    /\ task.sess[j] = "open"
    /\ task' = [task EXCEPT !.sess[j] = "closing",
                            !.result[j] = [careers_url |-> j,
                                           success |-> success]]
    /\ UNCHANGED scriptVars

\* finally: client.sessions.end has returned (ok), apply_to_job ends; or
\* it raises, and so does apply_to_job
SessionEnds(j, ok) ==
    /\ task.sess[j] = "closing"
    /\ task' = IF ok
               THEN [task EXCEPT
                       !.sess[j] = IF task.result[j] = CancelledError
                                   THEN "cancelled" ELSE "returned",
                       !.opened = @ \ {j}]
               ELSE [task EXCEPT !.sess[j] = "raised", !.result[j] = NoValue]
    /\ UNCHANGED scriptVars

\* asyncio.gather returns the results in the order of its arguments:
\* results.extend(chunk_results)
GatherReturns ==
    /\ task.pc = "gather"
    /\ \A j \in Chunk(task.i, task.n) : task.sess[j] = "returned"
    /\ task' = [task EXCEPT
                  !.pc = "for",
                  !.i = @ + max_concurrent_browsers,
                  !.results = @ \o [k \in 1..Cardinality(Chunk(task.i, task.n))
                                      |-> task.result[task.i + k]]]
    /\ UNCHANGED scriptVars

\* asyncio.gather passes on the exception of a coroutine: main ends with it
GatherRaises ==
    /\ task.pc = "gather"
    /\ \E j \in 1..task.n : task.sess[j] = "raised"
    /\ task' = [task EXCEPT !.pc = "failed"]
    /\ UNCHANGED scriptVars

\* asyncio.run cancels the coroutines that are left when main has ended:
\* one that has no session yet ends, one in its try block goes to finally
Cancelled(j) ==
    /\ task.pc = "failed"
    /\ task.sess[j] \in {"new", "open"}
    /\ task' = [task EXCEPT
                  !.sess[j] = IF @ = "new" THEN "cancelled" ELSE "closing",
                  !.result[j] = IF task.sess[j] = "open"
                                THEN CancelledError ELSE @]
    /\ UNCHANGED scriptVars

ApplyNext ==
    \/ StartChunk
    \/ ForEnds
    \/ GatherReturns
    \/ GatherRaises
    \/ \E j \in 1..task.n, ok \in BOOLEAN : SessionStarts(j, ok)
    \/ \E j \in 1..task.n, success \in BOOLEAN : BodyEnds(j, success)
    \/ \E j \in 1..task.n, ok \in BOOLEAN : SessionEnds(j, ok)
    \/ \E j \in 1..task.n : Cancelled(j)

ApplySpec == ApplyInit /\ [][ApplyNext]_vars

\* the careers_url of each result, in the order of results
ResultPages == [k \in 1..Len(task.results) |-> task.results[k].careers_url]

\* C23 (as stated): never more than max_concurrent_browsers sessions are
\* open, a chunk starts only when no session is open, and when main has
\* ended each careers page has exactly one result, in input order.
C23_OneResultPerPage ==
    /\ Cardinality(task.opened) <= 5
    /\ task.pc \in {"summary", "failed"} => ResultPages = InOrder(1..task.n)

\* C23 (amended): the bound on the open sessions and the order of the
\* chunks hold in every run; each careers page has exactly one result, in
\* input order, when main reaches its summary; main ends without a summary
\* only when sessions.start or sessions.end has raised in a coroutine.
C23_BoundedSessions ==
    /\ [](/\ Cardinality(task.opened) <= 5
          /\ task.pc = "summary" =>
                /\ ResultPages = InOrder(1..task.n)
                /\ \A j \in 1..task.n : task.sess[j] = "returned"
                /\ task.opened = {}
          /\ task.pc = "failed" =>
                /\ \E j \in 1..task.n : task.sess[j] = "raised"
                /\ Len(task.results) < task.n
          /\ \A k \in 1..Len(task.results) :
                task.results[k].careers_url = k)
    /\ [][\A j \in 1..task.n :
             (task.sess[j] = "none" /\ task'.sess[j] # "none") =>
                 /\ task.opened = {}
                 /\ \A k \in 1..task.n :
                       k < j => task'.sess[k] \in {"returned", "new"}
                 /\ Len(task.results) = task.i]_vars

\* the sixth page is being applied to, after the five sessions of the first
\* chunk have been open together and have ended
C23_Witness ==
    /\ task.n = 6
    /\ task.pc = "gather"
    /\ task.opened = {6}
    /\ Len(task.results) = 5
    /\ task.results[2].success /\ ~task.results[3].success

\* ------------------------------------------------------------------------
\* act_with_cache of basic-caching: task is cache.json and the state of
\* the call under way
\* ------------------------------------------------------------------------
\* Python's None
None == [type |-> "NoneType"]

\* the ObserveResult the SDK returns (a dict is [type |-> "dict"] with the
\* number of its keys)
ObserveResult == [type |-> "ObserveResult", size |-> 3]

\* the truth value Python gives an object in `if cache_exists:`
Truthy(value) ==
    /\ value # None
    /\ ~(value.type = "dict" /\ value.size = 0)

\* parsed.get(key) of the cache file (None if there is no entry)
get_cache(cache, key) == cache[key]

\* set_cache stores model_dump() of a Pydantic model, and a dict as it is
set_cache(cache, key, value) ==
    [cache EXCEPT ![key] = IF value.type = "ObserveResult"
                           THEN [type |-> "dict", size |-> value.size]
                           ELSE value]

\* no cache file yet, no call made
CacheInit ==
    /\ PollerInit
    /\ totp = TotpIdle
    /\ task = [pc |-> "idle", cache |-> [k \in {"k1", "k2"} |-> None],
               key |-> NoValue, self_heal |-> FALSE, action |-> None,
               hit |-> FALSE, calls |-> 0, observes |-> 0,
               completed |-> {}, outcome |-> NoValue]

\* act_with_cache(client, session_id, key, prompt, self_heal) is called:
\* cache_exists = get_cache(key), and the branch on it
BeginCall(key, self_heal) ==
    /\ task.pc = "idle"
    /\ task.calls < MaxCalls
    /\ LET cache_exists == get_cache(task.cache, key)
       IN  task' = [task EXCEPT
                      !.pc = IF Truthy(cache_exists) THEN "act" ELSE "observe",
                      !.key = key,
                      !.self_heal = self_heal,
                      !.hit = Truthy(cache_exists),
                      !.action = IF Truthy(cache_exists) THEN cache_exists
                                 ELSE None,
                      !.calls = @ + 1,
                      !.outcome = NoValue]
    /\ UNCHANGED scriptVars

\* client.sessions.observe returns: action is the first result or {}, and
\* set_cache(key, action)
ObserveReturns(results) ==
    /\ task.pc = "observe"
    /\ LET action == IF Len(results) > 0 THEN results[1]
                     ELSE [type |-> "dict", size |-> 0]
       IN  task' = [task EXCEPT
                      !.pc = "act",
                      !.observes = @ + 1,
                      !.action = action,
                      !.cache = set_cache(task.cache, task.key, action)]
    /\ UNCHANGED scriptVars

\* client.sessions.observe raises
ObserveRaises ==
    /\ task.pc = "observe"
    /\ task' = [task EXCEPT !.pc = "except", !.observes = @ + 1]
    /\ UNCHANGED scriptVars

\* client.sessions.act returns (with the action if it is a dict, with the
\* prompt otherwise): the call is over
ActReturns ==
    /\ task.pc = "act"
    /\ task' = [task EXCEPT
                  !.pc = "idle",
                  !.completed = @ \cup {task.key},
                  !.outcome = [kind |-> "return",
                               input |-> IF task.action.type = "dict"
                                         THEN "action" ELSE "prompt"]]
    /\ UNCHANGED scriptVars

\* client.sessions.act raises
ActRaises ==
    /\ task.pc = "act"
    /\ task' = [task EXCEPT !.pc = "except"]
    /\ UNCHANGED scriptVars

\* except Exception, without self_heal: raise e
ExceptRaises ==
    /\ task.pc = "except"
    /\ ~task.self_heal
    /\ task' = [task EXCEPT !.pc = "idle", !.outcome = [kind |-> "raise"]]
    /\ UNCHANGED scriptVars

\* except Exception, with self_heal: client.sessions.act(input=prompt)
\* returns (ok) or raises
ExceptHeals(ok) ==
    /\ task.pc = "except"
    /\ task.self_heal
    /\ task' = [task EXCEPT
                  !.pc = "idle",
                  !.completed = IF ok THEN @ \cup {task.key} ELSE @,
                  !.outcome = IF ok THEN [kind |-> "return", input |-> "prompt"]
                              ELSE [kind |-> "raise"]]
    /\ UNCHANGED scriptVars

CacheNext ==
    \/ \E key \in DOMAIN task.cache, self_heal \in BOOLEAN :
          BeginCall(key, self_heal)
    \/ \E results \in {<< >>, <<ObserveResult>>} : ObserveReturns(results)
    \/ ObserveRaises
    \/ ActReturns
    \/ ActRaises
    \/ ExceptRaises
    \/ \E ok \in BOOLEAN : ExceptHeals(ok)

CacheSpec == CacheInit /\ [][CacheNext]_vars

\* C24: observe is called on a cache miss only, and once a call for a key
\* has completed without error every later call for that key is a cache
\* hit and calls observe no more.
C24_HitAfterCompletedCall ==
    [][/\ task'.observes # task.observes => ~task.hit
       /\ (task.pc = "idle" /\ task'.pc # "idle"
             /\ task'.key \in task.completed) =>
               /\ task'.hit
               /\ task'.pc = "act"]_vars

\* ------------------------------------------------------------------------
\* main of website-link-tester with verify_links_in_batches and
\* verify_single_link, and the session of main of mfa-handling: task is the
\* state of main and of the function that holds the session
\* ------------------------------------------------------------------------
\* the state before main runs: in website-link-tester main is about to
\* collect the links, in mfa-handling it is about to start its session
\* (fn is the position in the function that holds the session, link the
\* number of the link under verification, verified the local results of
\* verify_links_in_batches, results the variable of main)
SessionInit(script) ==
    [script |-> script,
     pc |-> IF script = "mfa-handling" THEN "session" ELSE "collect",
     fn |-> IF script = "mfa-handling" THEN "start" ELSE "off",
     links |-> IF script = "mfa-handling" THEN 1 ELSE 0,
     link |-> IF script = "mfa-handling" THEN 1 ELSE 0,
     started |-> [k \in 1..MaxLinks |-> 0],
     ended |-> [k \in 1..MaxLinks |-> 0],
     endCalls |-> [k \in 1..MaxLinks |-> 0],
     failing |-> [k \in 1..MaxLinks |-> FALSE],
     exits |-> [k \in 1..MaxLinks |-> NoValue],
     verified |-> << >>,
     results |-> << >>,
     printed |-> << >>]

\* one of the two scripts is about to run its main
LinkInit ==
    /\ PollerInit
    /\ totp = TotpIdle
    /\ \E script \in {"website-link-tester", "mfa-handling"} :
          task = SessionInit(script)

\* links = collect_links_from_homepage() returns a list of links
CollectReturns(n) ==
    /\ task.pc = "collect"
    /\ task' = [task EXCEPT !.pc = "for", !.links = n]
    /\ UNCHANGED scriptVars

\* collect_links_from_homepage raises
CollectRaises ==
    /\ task.pc = "collect"
    /\ task' = [task EXCEPT !.pc = "except"]
    /\ UNCHANGED scriptVars

\* verify_links_in_batches: result = verify_single_link(link) is called
\* for the next link (the batches hold one link after the other)
NextLink ==
    /\ task.pc = "for"
    /\ Len(task.verified) < task.links
    /\ task' = [task EXCEPT !.pc = "session", !.fn = "start",
                            !.link = Len(task.verified) + 1]
    /\ UNCHANGED scriptVars

\* verify_links_in_batches returns its list: main assigns results
AllVerified ==
    /\ task.pc = "for"
    /\ Len(task.verified) >= task.links
    /\ task' = [task EXCEPT !.pc = "output", !.results = task.verified]
    /\ UNCHANGED scriptVars

\* the function that holds the session returns: in verify_links_in_batches
\* results.append(result); main of mfa-handling is over
FnReturn(t, success) ==
    [t EXCEPT
       !.fn = "off",
       !.exits[t.link] = [kind |-> "return", success |-> success],
       !.pc = IF t.script = "mfa-handling" THEN "completed" ELSE "for",
       !.verified = IF t.script = "mfa-handling" THEN @
                    ELSE Append(@, [link |-> t.link, success |-> success])]

\* it raises: the exception passes through verify_links_in_batches to the
\* handler of main; main of mfa-handling ends with it
FnRaise(t) ==
    [t EXCEPT
       !.fn = "off",
       !.exits[t.link] = [kind |-> "raise"],
       !.pc = IF t.script = "mfa-handling" THEN "raised" ELSE "except"]

\* client.sessions.start, before the try statement
LinkStart(ok) ==
    /\ task.pc = "session" /\ task.fn = "start"
    /\ task' = IF ok
               THEN [task EXCEPT !.fn = "try", !.started[task.link] = @ + 1]
               ELSE FnRaise(task)
    /\ UNCHANGED scriptVars

\* the with block raises: connect_over_cdp, page.goto, the about:blank
\* guard, extract, act, browser.close or the exit of sync_playwright
LinkBodyRaises ==
    /\ task.pc = "session" /\ task.fn = "try"
    /\ task' = [task EXCEPT !.fn = "except", !.failing[task.link] = TRUE]
    /\ UNCHANGED scriptVars

\* a social link has loaded: browser.close(), and client.sessions.end is
\* called inside the with block (website-link-tester only)
LinkBodySocial ==
    /\ task.pc = "session" /\ task.fn = "try"
    /\ task.script = "website-link-tester"
    /\ task' = [task EXCEPT !.fn = "end in with"]
    /\ UNCHANGED scriptVars

\* the with block has ended: client.sessions.end is called after it
LinkBodyEnds ==
    /\ task.pc = "session" /\ task.fn = "try"
    /\ task' = [task EXCEPT !.fn = "end"]
    /\ UNCHANGED scriptVars

\* a call of client.sessions.end(id=session_id), which returns (ok) or
\* raises: inside the with block, after it, or in the except clause (after
\* which verify_single_link returns its result with success False and main
\* of mfa-handling raises again)
LinkEnd(ok) ==
    /\ task.pc = "session"
    /\ task.fn \in {"end in with", "end", "except"}
    /\ LET called == [task EXCEPT
                        !.endCalls[task.link] = @ + 1,
                        !.ended[task.link] = IF ok THEN @ + 1 ELSE @]
       IN  task' =
             CASE task.fn = "end in with" ->
                    [called EXCEPT !.fn = IF ok THEN "exit" ELSE "except"]
               [] task.fn = "end" ->
                    IF ok THEN FnReturn(called, TRUE)
                    ELSE [called EXCEPT !.fn = "except"]
               [] task.fn = "except" ->
                    IF ~ok \/ task.script = "mfa-handling"
                    THEN FnRaise(called)
                    ELSE FnReturn(called, FALSE)
    /\ UNCHANGED scriptVars

\* the return inside the with block leaves sync_playwright, whose exit
\* returns (ok) or raises
LinkWithExit(ok) ==
    /\ task.pc = "session" /\ task.fn = "exit"
    /\ task' = IF ok THEN FnReturn(task, TRUE)
               ELSE [task EXCEPT !.fn = "except"]
    /\ UNCHANGED scriptVars

\* output_results(results) prints the final report; main is over
OutputReturns ==
    /\ task.pc = "output"
    /\ task' = [task EXCEPT
                  !.pc = "completed",
                  !.printed = Append(@, [label |-> "FINAL RESULTS",
                                         results |-> task.results])]
    /\ UNCHANGED scriptVars

\* output_results raises (model_dump of a result, or a print)
OutputRaises ==
    /\ task.pc = "output"
    /\ task' = [task EXCEPT !.pc = "except"]
    /\ UNCHANGED scriptVars

\* except Exception in main: the partial results if results is not empty,
\* the message that there are none otherwise, and raise
MainExcept ==
    /\ task.pc = "except"
    /\ task' = [task EXCEPT
                  !.pc = "raised",
                  !.printed =
                      IF task.results # << >>
                      THEN Append(@, [label |-> "PARTIAL RESULTS",
                                      results |-> task.results])
                      ELSE Append(@, [label |-> "No results to output"])]
    /\ UNCHANGED scriptVars

LinkNext ==
    \/ \E n \in 0..MaxLinks : CollectReturns(n)
    \/ CollectRaises
    \/ NextLink
    \/ AllVerified
    \/ \E ok \in BOOLEAN : LinkStart(ok)
    \/ LinkBodyRaises
    \/ LinkBodySocial
    \/ LinkBodyEnds
    \/ \E ok \in BOOLEAN : LinkEnd(ok)
    \/ \E ok \in BOOLEAN : LinkWithExit(ok)
    \/ OutputReturns
    \/ OutputRaises
    \/ MainExcept

LinkSpec == LinkInit /\ [][LinkNext]_vars

\* C25: when main of the link tester ends with an error after k >= 1 links
\* have been verified, it has printed a partial-results report that holds
\* those k results.
C25_PartialResultsPrinted ==
    (task.pc = "raised" /\ Len(task.verified) >= 1) =>
        \E r \in 1..Len(task.printed) :
            /\ task.printed[r].label = "PARTIAL RESULTS"
            /\ task.printed[r].results = task.verified

\* C29: a session that was started is ended by exactly one call of
\* client.sessions.end when its function is left, never by a second one,
\* and verify_single_link returns a result with success False for a
\* failing link instead of raising.
C29_SessionEndedExactlyOnce ==
    \A k \in 1..MaxLinks :
        /\ task.endCalls[k] <= 1
        /\ (task.exits[k] # NoValue /\ task.started[k] = 1) =>
              task.endCalls[k] = 1
        /\ (task.script = "website-link-tester" /\ task.exits[k] # NoValue
              /\ task.failing[k]) =>
              task.exits[k] = [kind |-> "return", success |-> FALSE]

\* ------------------------------------------------------------------------
\* main of playwright/basic-recaptcha from its try statement on: task is
\* the state of main, of the asyncio.Event and of the page's console
\* ------------------------------------------------------------------------
\* a variant of the listener that takes the started message for the end
handle_consoleOnStarted(solved, text) ==
    IF text \in {"browserbase-solving-started",
                 "browserbase-solving-finished"} THEN TRUE ELSE solved

\* handle_console(msg): captcha_solved.set() on the finished message
\* (the value of the event after the call)
handle_console(solved, text) ==
    IF text = "browserbase-solving-finished" THEN TRUE ELSE solved

\* captcha_solved = asyncio.Event(), at a clock reading, with
\* SOLVE_CAPTCHAS on or off
CaptchaInit ==
    /\ PollerInit
    /\ totp = TotpIdle
    /\ \E solve \in BOOLEAN, t \in {0, TickSeconds} :
          task = [pc |-> "try", SOLVE_CAPTCHAS |-> solve, clock |-> t,
                  listening |-> FALSE, captcha_solved |-> FALSE,
                  console |-> << >>, waitStart |-> -1,
                  clicked |-> FALSE, closed |-> FALSE,
                  outcome |-> [kind |-> "none", type |-> "none"]]

\* if SOLVE_CAPTCHAS: page.on("console", handle_console); page.goto begins
Listen ==
    /\ task.pc = "try"
    /\ task' = [task EXCEPT !.pc = "goto",
                            !.listening = task.SOLVE_CAPTCHAS]
    /\ UNCHANGED scriptVars

\* the page writes a message to its console while main awaits; the
\* listener, if registered, is called with it
ConsoleMessage(text) ==
    /\ task.pc \in {"goto", "waiting", "submitted"}
    /\ Len(task.console) < MaxMessages
    /\ task' = [task EXCEPT
                  !.console = Append(@, text),
                  !.captcha_solved = IF task.listening
                                     THEN handle_console(@, text) ELSE @]
    /\ UNCHANGED scriptVars

\* page.goto returns: the wait begins if the event is not set, the click
\* is next otherwise
GotoReturns ==
    /\ task.pc = "goto"
    /\ task' = IF task.SOLVE_CAPTCHAS /\ ~task.captcha_solved
               THEN [task EXCEPT !.pc = "waiting", !.waitStart = task.clock]
               ELSE [task EXCEPT !.pc = "click"]
    /\ UNCHANGED scriptVars

\* asyncio.wait_for(captcha_solved.wait(), timeout=60.0) returns
WaitReturns ==
    /\ task.pc = "waiting"
    /\ task.captcha_solved
    /\ task' = [task EXCEPT !.pc = "click"]
    /\ UNCHANGED scriptVars

\* it raises asyncio.TimeoutError after 60 seconds:
\* raise TimeoutError("Captcha solving timed out after 60 seconds")
WaitTimesOut ==
    /\ task.pc = "waiting"
    /\ task.clock >= task.waitStart + CaptchaTimeout
    /\ task' = [task EXCEPT
                  !.pc = "except",
                  !.outcome = [kind |-> "raise", type |-> "TimeoutError"]]
    /\ UNCHANGED scriptVars

\* page.click('input[type="submit"]') returns
Click ==
    /\ task.pc = "click"
    /\ task' = [task EXCEPT !.pc = "submitted", !.clicked = TRUE]
    /\ UNCHANGED scriptVars

\* wait_for_load_state and text_content return: the try block is over
CheckReturns ==
    /\ task.pc = "submitted"
    /\ task' = [task EXCEPT !.pc = "finally",
                            !.outcome = [kind |-> "return", type |-> "None"]]
    /\ UNCHANGED scriptVars

\* an awaited call of the page raises
PageRaises ==
    /\ task.pc \in {"goto", "click", "submitted"}
    /\ task' = [task EXCEPT
                  !.pc = "except",
                  !.outcome = [kind |-> "raise", type |-> "Error"]]
    /\ UNCHANGED scriptVars

\* except Exception: print and raise
CaptchaExcept ==
    /\ task.pc = "except"
    /\ task' = [task EXCEPT !.pc = "finally"]
    /\ UNCHANGED scriptVars

\* finally: await browser.close()
CaptchaFinally ==
    /\ task.pc = "finally"
    /\ task' = [task EXCEPT !.pc = "done", !.closed = TRUE]
    /\ UNCHANGED scriptVars

\* the clock while main awaits, up to three ticks past the timeout; the
\* timeout of wait_for is not overrun
CaptchaTick ==
    /\ task.pc \in {"goto", "waiting", "click", "submitted"}
    /\ task.clock + TickSeconds <= CaptchaTimeout + 3 * TickSeconds
    /\ ~(task.pc = "waiting"
           /\ task.clock >= task.waitStart + CaptchaTimeout)
    /\ task' = [task EXCEPT !.clock = @ + TickSeconds]
    /\ UNCHANGED scriptVars

CaptchaNext ==
    \/ Listen
    \/ \E text \in {"browserbase-solving-started",
                     "browserbase-solving-finished", "other"} :
          ConsoleMessage(text)
    \/ GotoReturns
    \/ WaitReturns
    \/ WaitTimesOut
    \/ Click
    \/ CheckReturns
    \/ PageRaises
    \/ CaptchaExcept
    \/ CaptchaFinally
    \/ CaptchaTick

CaptchaSpec == CaptchaInit /\ [][CaptchaNext]_vars

\* the finished message is in the console
FinishedSeen ==
    \E k \in 1..Len(task.console) :
        task.console[k] = "browserbase-solving-finished"

\* C26: with SOLVE_CAPTCHAS on, submit is clicked only after the finished
\* message has been seen; a wait of 60 seconds without it ends in
\* TimeoutError, with no click and with the browser closed; a finished
\* message that comes at any time after page.goto has begun counts.
C26_SubmitAfterSolved ==
    /\ [](task.SOLVE_CAPTCHAS =>
             /\ task.clicked => FinishedSeen
             /\ task.pc = "click" => FinishedSeen
             /\ FinishedSeen => task.captcha_solved
             /\ task.outcome.type = "TimeoutError" =>
                   /\ ~task.clicked
                   /\ task.waitStart >= 0
                   /\ task.clock >= task.waitStart + 60
             /\ (task.pc = "waiting" /\ ~FinishedSeen) =>
                   task.outcome.kind = "none"
             /\ task.pc = "done" => task.closed)
    /\ [][task.SOLVE_CAPTCHAS =>
             /\ (task.pc = "waiting" /\ task'.pc # "waiting") =>
                   IF FinishedSeen
                   THEN task'.pc = "click" \/ task'.outcome.type = "TimeoutError"
                   ELSE /\ task'.outcome.type = "TimeoutError"
                        /\ task.clock >= task.waitStart + 60
             /\ (task.pc = "goto" /\ task'.pc # "goto" /\ FinishedSeen) =>
                   task'.pc \in {"click", "except"}
             /\ task.outcome.type = "TimeoutError" =>
                   task'.outcome.type = "TimeoutError" /\ ~task'.clicked]_vars

\* the wait ran for 60 seconds without the finished message, and main has
\* ended with TimeoutError, no click, and the browser closed
C26_Witness ==
    /\ task.SOLVE_CAPTCHAS
    /\ task.pc = "done"
    /\ task.outcome.type = "TimeoutError"
    /\ task.console = <<"browserbase-solving-started">>
    /\ ~task.clicked /\ task.closed

\* ------------------------------------------------------------------------
\* FormFillingNode of cartesia-form-filling during one voice call: task is
\* the state of the node, of its background tasks and of handle_new_call
\* ------------------------------------------------------------------------
\* (the questions of the form are named by their position in
\* self.questions)
\* FormFillingNode(...) has been made, the call begins (init is the state
\* of browser_init_task, fill that of the task made for each field)
FormInit ==
    /\ PollerInit
    /\ totp = TotpIdle
    /\ task = [phase |-> "call", pc |-> "idle", init |-> "none",
               current_question_index |-> 0, collected_data |-> {},
               fill |-> [q \in 1..MaxQuestions |-> "none"],
               form_submitted |-> FALSE, submits |-> 0, submitActs |-> << >>,
               cleanups |-> 0, ended |-> FALSE]

\* the first process_context of the call: the browser initialization is
\* started in the background and the greeting is spoken
ProcessFirst ==
    /\ task.phase = "call" /\ task.pc = "idle"
    /\ task.init = "none"
    /\ task' = [task EXCEPT !.init = "initializing"]
    /\ UNCHANGED scriptVars

\* _initialize_browser ends: the filler is initialized (ok), or initialize
\* has raised
InitEnds(ok) ==
    /\ task.init = "initializing"
    /\ task' = [task EXCEPT !.init = IF ok THEN "ready" ELSE "failed"]
    /\ UNCHANGED scriptVars

\* process_context with a current question, in which the model calls
\* record_form_field: the value is stored, a task for
\* _fill_form_field_async is created, the index moves on
ProcessRecord ==
    /\ task.phase = "call" /\ task.pc = "idle"
    /\ task.init # "none"
    /\ task.current_question_index < MaxQuestions
    /\ LET q == task.current_question_index + 1
       IN  task' = [task EXCEPT
                      !.collected_data = @ \cup {q},
                      !.fill[q] = "pending",
                      !.current_question_index = q]
    /\ UNCHANGED scriptVars

\* _fill_form_field_async has awaited browser_init_task: fill_field issues
\* its action to the session, or the exception of the initialization ends
\* the task
FillActs(q) ==
    /\ task.fill[q] = "pending"
    /\ task.init \in {"ready", "failed"}
    /\ task' = [task EXCEPT
                  !.fill[q] = IF task.init = "ready" THEN "acting"
                              ELSE "failed"]
    /\ UNCHANGED scriptVars

\* the action of fill_field returns (ok) or raises
FillEnds(q, ok) ==
    /\ task.fill[q] = "acting"
    /\ task' = [task EXCEPT !.fill[q] = IF ok THEN "done" ELSE "failed"]
    /\ UNCHANGED scriptVars

\* _submit_form with the filler set: stagehand_filler.submit_form() is
\* invoked and issues its action (the record keeps the state of the fill
\* tasks at that moment)
SubmitInvoked(t) ==
    [t EXCEPT !.submits = @ + 1, !.submitActs = Append(@, t.fill)]

\* process_context with no question left and data collected:
\* submission_success = await self._submit_form()
ProcessSubmit ==
    /\ task.phase = "call" /\ task.pc = "idle"
    /\ task.init # "none"
    /\ task.current_question_index >= MaxQuestions
    /\ task.current_question_index > 0
    /\ task.collected_data # {}
    /\ task.submits < MaxSubmits
    /\ task' = [SubmitInvoked(task) EXCEPT !.pc = "submit"]
    /\ UNCHANGED scriptVars

\* _submit_form returns: form_submitted = True, cleanup_and_submit (which
\* ends the session), and EndCall
ProcessSubmitEnds ==
    /\ task.pc = "submit"
    /\ task' = [task EXCEPT !.pc = "idle", !.form_submitted = TRUE,
                            !.ended = TRUE]
    /\ UNCHANGED scriptVars

\* the user starts speaking while the generation awaits: it is cancelled
Interrupt ==
    /\ task.pc = "submit"
    /\ task' = [task EXCEPT !.pc = "idle"]
    /\ UNCHANGED scriptVars

\* system.wait_for_shutdown() returns in handle_new_call
Shutdown ==
    /\ task.phase = "call" /\ task.pc = "idle"
    /\ task' = [task EXCEPT !.phase = "shutdown"]
    /\ UNCHANGED scriptVars

\* cleanup_and_submit() without a submission: the session is ended if
\* there is a filler
CleanupOnly ==
    /\ task.phase = "shutdown" /\ task.pc = "idle"
    /\ task.cleanups < MaxCleanups
    /\ ~(~task.form_submitted /\ task.collected_data # {} /\ task.init # "none")
    /\ task' = [task EXCEPT !.cleanups = @ + 1,
                            !.ended = @ \/ task.init # "none"]
    /\ UNCHANGED scriptVars

\* cleanup_and_submit() with data collected and form_submitted False:
\* await self._submit_form()
CleanupSubmit ==
    /\ task.phase = "shutdown" /\ task.pc = "idle"
    /\ task.cleanups < MaxCleanups
    /\ ~task.form_submitted /\ task.collected_data # {} /\ task.init # "none"
    /\ task.submits < MaxSubmits
    /\ task' = [SubmitInvoked(task) EXCEPT !.pc = "cleanup"]
    /\ UNCHANGED scriptVars

\* _submit_form returns in cleanup_and_submit: the session is ended
CleanupSubmitEnds ==
    /\ task.pc = "cleanup"
    /\ task' = [task EXCEPT !.pc = "idle", !.cleanups = @ + 1,
                            !.ended = TRUE]
    /\ UNCHANGED scriptVars

FormNext ==
    \/ ProcessFirst
    \/ \E ok \in BOOLEAN : InitEnds(ok)
    \/ ProcessRecord
    \/ \E q \in 1..MaxQuestions : FillActs(q)
    \/ \E q \in 1..MaxQuestions, ok \in BOOLEAN : FillEnds(q, ok)
    \/ ProcessSubmit
    \/ ProcessSubmitEnds
    \/ Interrupt
    \/ Shutdown
    \/ CleanupOnly
    \/ CleanupSubmit
    \/ CleanupSubmitEnds

FormSpec == FormInit /\ [][FormNext]_vars

\* C27: within one call, whatever process_context and cleanup_and_submit
\* calls are made, StagehandFormFiller.submit_form is invoked at most once.
C27_SubmittedAtMostOnce ==
    task.submits <= 1

\* C28: when submit_form issues its action every fill task made for a
\* recorded field has completed, and no fill task runs afterwards.
C28_FillsCompleteBeforeSubmit ==
    \A k \in 1..Len(task.submitActs) :
        \A q \in 1..MaxQuestions :
            /\ task.submitActs[k][q] \in {"none", "done", "failed"}
            /\ task.fill[q] \notin {"pending", "acting"}

\* ------------------------------------------------------------------------
\* the wait for the manual MFA in create_session_with_context of
\* manual-mfa-with-contexts and manual-MFA-with-contexts: task is the state
\* of the loop, of the clock and of the page
\* ------------------------------------------------------------------------
\* path in current_url, for a path and a URL given by their segments (the
\* page is on the login page, the two-factor page or the page after it)
InUrl(path, url) ==
    \E k \in 0..(Len(url) - Len(path)) :
        \A j \in 1..Len(path) : url[k + j] = path[j]

\* "/login" not in current_url and "/sessions/two-factor" not in current_url
LoggedIn(current_url) ==
    /\ ~InUrl(<<"login">>, current_url)
    /\ ~InUrl(<<"sessions", "two-factor">>, current_url)

\* a variant of the loop condition that lets an iteration begin at the
\* deadline itself
LoopConditionInclusive(t) ==
    /\ ~t.login_complete
    /\ (t.clock - t.start_time) <= MfaTimeout

\* not login_complete and (time.time() - start_time) < timeout
LoopCondition(t) ==
    /\ ~t.login_complete
    /\ (t.clock - t.start_time) < MfaTimeout

\* login_complete = False, start_time = time.time(), timeout = 120, with
\* the page on the two-factor prompt
WaitInit ==
    /\ PollerInit
    /\ totp = TotpIdle
    /\ \E t \in 0..MaxStart :
          task = [pc |-> "while", clock |-> t, start_time |-> t,
                  login_complete |-> FALSE, url |-> <<"sessions", "two-factor", "app">>,
                  since |-> t, enteredAt |-> -1, checks |-> 0,
                  firstCheckAt |-> -1, lastCheckAt |-> -1,
                  sawLoggedIn |-> FALSE,
                  outcome |-> [kind |-> "none", type |-> "none"]]

\* the loop condition holds: time.sleep(3) begins
WhileEnters ==
    /\ task.pc = "while"
    /\ LoopCondition(task)
    /\ task' = [task EXCEPT !.pc = "sleeping", !.since = task.clock,
                            !.enteredAt = task.clock]
    /\ UNCHANGED scriptVars

\* the loop condition fails: the exception if login_complete is False,
\* the rest of the function otherwise
WhileExits ==
    /\ task.pc = "while"
    /\ ~LoopCondition(task)
    /\ task' = [task EXCEPT
                  !.pc = "done",
                  !.outcome = IF ~task.login_complete
                              THEN [kind |-> "raise", type |-> "MFA timeout"]
                              ELSE [kind |-> "return", type |-> "None"]]
    /\ UNCHANGED scriptVars

\* the sleep returns, not before three seconds have gone by:
\* current_url = page.url and the test on it
SleepThenCheck ==
    /\ task.pc = "sleeping"
    /\ task.clock >= task.since + MfaSleepSeconds
    /\ task' = [task EXCEPT
                  !.pc = "while",
                  !.checks = @ + 1,
                  !.firstCheckAt = IF task.checks = 0 THEN task.clock ELSE @,
                  !.lastCheckAt = task.clock,
                  !.sawLoggedIn = @ \/ LoggedIn(task.url),
                  !.login_complete = IF LoggedIn(task.url) THEN TRUE ELSE @]
    /\ UNCHANGED scriptVars

\* the user acts in the browser: the page goes to another URL
UrlChanges(url) ==
    /\ task.pc = "sleeping"
    /\ task.url # url
    /\ task' = [task EXCEPT !.url = url]
    /\ UNCHANGED scriptVars

\* time.time() during the sleep, which may overrun by MaxOverrun seconds
WaitTick ==
    /\ task.pc = "sleeping"
    /\ task.clock < task.since + MfaSleepSeconds + MaxOverrun
    /\ task' = [task EXCEPT !.clock = @ + 1]
    /\ UNCHANGED scriptVars

WaitNext ==
    \/ WhileEnters
    \/ WhileExits
    \/ SleepThenCheck
    \/ \E url \in {<<"login">>, <<"sessions", "two-factor", "app">>,
                    <<"dashboard">>} : UrlChanges(url)
    \/ WaitTick

\* the interpreter runs the loop on, the sleep returns, the clock advances
WaitSpec ==
    /\ WaitInit
    /\ [][WaitNext]_vars
    /\ WF_vars(WhileEnters)
    /\ WF_vars(WhileExits)
    /\ WF_vars(SleepThenCheck)
    /\ WF_vars(WaitTick)

\* C30 (as stated): the loop terminates, it succeeds only after a URL
\* check that saw neither '/login' nor '/sessions/two-factor', it raises
\* 'MFA timeout' otherwise once 120 seconds have elapsed, and no URL check
\* is made after the 120 seconds have passed.
C30_NoCheckAfterDeadline ==
    /\ task.outcome.kind = "return" => task.sawLoggedIn
    /\ task.outcome.kind = "raise" =>
          ~task.sawLoggedIn /\ task.clock - task.start_time >= 120
    /\ task.checks >= 1 => task.lastCheckAt - task.start_time <= 120

\* C30 (amended): the loop terminates; it succeeds only after a URL check
\* that saw neither '/login' nor '/sessions/two-factor', and raises 'MFA
\* timeout' otherwise, once 120 seconds have elapsed; every check follows a
\* sleep of three seconds that began before the deadline, so the last
\* check may come after it.
C30_CheckBegunBeforeDeadline ==
    /\ [](/\ task.outcome.kind = "return" =>
                task.sawLoggedIn /\ task.login_complete
          /\ task.outcome.kind = "raise" =>
                /\ ~task.sawLoggedIn
                /\ task.clock - task.start_time >= 120
          /\ task.checks >= 1 =>
                /\ task.enteredAt - task.start_time < 120
                /\ task.pc # "sleeping" =>
                      task.lastCheckAt >= task.enteredAt + 3
                /\ task.firstCheckAt >= task.start_time + 3
          /\ task.sawLoggedIn <=> task.login_complete)
    /\ [][/\ task'.checks # task.checks =>
                /\ task'.checks = task.checks + 1
                /\ task.checks >= 1 => task.clock >= task.lastCheckAt + 3
                /\ ~task.login_complete
          /\ task.pc = "done" => task'.pc = "done"]_vars
    /\ <>(task.pc = "done")

\* a check made after the deadline saw the login completed, and the loop
\* has ended with success
C30_Witness ==
    /\ task.pc = "done"
    /\ task.outcome.kind = "return"
    /\ task.lastCheckAt - task.start_time > 120
    /\ task.checks >= 2

TypeOK ==
    /\ now \in 0..MaxTime
    /\ \A p \in Invocations :
          pc[p] \in {"idle", "loop", "listing", "reading", "sleeping", "done"}
====
